---- MODULE Spec2Model ----
(***************************************************************************)
(* A model of pygerrit2's REST client: the response decoder, the           *)
(* dictionary merger, the GerritRestAPI constructor and verbs, the         *)
(* GerritReview request builder and GerritChange.add_review.               *)
(*                                                                         *)
(* Python dictionaries are objects with identity.  The model keeps them in *)
(* a heap (a sequence of dictionaries, an address is an index) so that two *)
(* names for one dictionary are visible.  Everything that is not a         *)
(* dictionary (strings, booleans, None, auth handlers, streams) is a       *)
(* scalar, named by a string.                                              *)
(***************************************************************************)
EXTENDS Integers, Sequences, FiniteSets, TLC

VARIABLES
    pc,          \* which operation has run in the scenario at hand
    heap,        \* the dictionaries alive: a sequence, an address is an index
    mBase,       \* _merge_dict scenario: the base mapping, as written by the caller
    mOver,       \* _merge_dict scenario: the overlay mapping, as written
    mOut,        \* _merge_dict scenario: the returned mapping, read back
    apiArgs,     \* the arguments GerritRestAPI.__init__ was called with
    apiRaised,   \* what it raised ("" for nothing)
    selfUrl,     \* GerritRestAPI.url, a sequence of characters
    selfKwargs,  \* GerritRestAPI.kwargs: the address of the default options
    ctorKwargs,  \* the default options as they were when __init__ returned
    nCalls,      \* the number of verb calls made
    callVerb,    \* the verb last called: "get", "put", "post", "delete"
    callKwargs,  \* the options the caller gave it, as written
    callDefaults,\* the default options as they were when it was called
    sentUrl,     \* the URL it handed to the HTTP session
    sent,        \* the options it handed to the HTTP session
    revArgs,     \* the arguments GerritReview.__init__ was called with
    review,      \* the GerritReview object: its attributes assigned so far
    revRaised,   \* what the last GerritReview operation raised ("" for nothing)
    revLog,      \* every comment an add_comments loop has taken up, in order
    interp,      \* the interpreter: "py2" (bytes is str) or "py3"
    response,    \* the response the HTTP session gave the verb
    bodyParts,   \* how its body was put together: whitespace, prefixes, document
    decoded,     \* what _decode_response did with it
    verbResult,  \* what the verb gave its caller
    srvRevision, \* the server: the current revision (patch set) of the change
    srvVisible,  \* the server: whether a query finds the change
    change,      \* the GerritChange object: its __dict__
    chgRaised,   \* what the add_review call in hand, or the last one, raised
    nReviews,    \* the number of add_review calls begun
    httpLog      \* every request sent, in order, with the answer to each GET

mergeVars == <<mBase, mOver, mOut>>
apiVars == <<apiArgs, apiRaised, selfUrl, selfKwargs, ctorKwargs>>
verbVars == <<nCalls, callVerb, callKwargs, callDefaults, sentUrl, sent>>
reviewVars == <<revArgs, review, revRaised, revLog>>
decodeVars == <<interp, response, bodyParts, decoded, verbResult>>
changeVars == <<srvRevision, srvVisible, change, chgRaised, nReviews, httpLog>>
vars == <<pc, heap, mergeVars, apiVars, verbVars, reviewVars, decodeVars, changeVars>>

----------------------------------------------------------------------------
(* Values.                                                                 *)

EmptyDict == [k \in {} |-> 0]

\* A value as written in a literal: a scalar or a nested dictionary.
PS(x) == [t |-> "s", s |-> x, d |-> EmptyDict]
PD(f) == [t |-> "d", s |-> "", d |-> f]

\* A value stored in a dictionary of the heap: a scalar or a reference.
HS(x) == [t |-> "s", s |-> x, r |-> 0]
HR(a) == [t |-> "r", s |-> "", r |-> a]

\* isinstance(v, dict) for a stored value.
IsDict(v) == v.t = "r"

\* result[key] = value
SetItem(h, a, key, v) == [h EXCEPT ![a] = (key :> v) @@ @]

\* A dictionary literal evaluated: a fresh dictionary for it and for each
\* nested literal.  Yields the heap and the address of the new dictionary.
RECURSIVE NewDict(_, _)
RECURSIVE NewItems(_, _, _, _)
NewDict(h, lit) ==
    LET a == Len(h) + 1
    IN  [h |-> NewItems(Append(h, EmptyDict), a, lit, DOMAIN lit), a |-> a]

NewItems(h, a, lit, ks) ==
    IF ks = {} THEN h
    ELSE LET key == CHOOSE k \in ks : TRUE
         IN  IF lit[key].t = "d"
             THEN LET n == NewDict(h, lit[key].d)
                  IN  NewItems(SetItem(n.h, a, key, HR(n.a)), a, lit, ks \ {key})
             ELSE NewItems(SetItem(h, a, key, HS(lit[key].s)), a, lit, ks \ {key})

\* The dictionary at an address read as a value (what a caller, or the HTTP
\* session, sees when it walks it).
RECURSIVE Deref(_, _)
Deref(h, a) ==
    [k \in DOMAIN h[a] |->
        IF IsDict(h[a][k]) THEN PD(Deref(h, h[a][k].r)) ELSE PS(h[a][k].s)]

----------------------------------------------------------------------------
(* _merge_dict(result, overrides)                                          *)

RECURSIVE MergeShallowKeys(_, _, _, _)
\* A merger that never recurses: the overlay value always replaces.
MergeShallowKeys(h, result, overrides, ks) ==
    IF ks = {} THEN h
    ELSE LET key == CHOOSE k \in ks : TRUE
         IN  MergeShallowKeys(SetItem(h, result, key, h[overrides][key]),
                              result, overrides, ks \ {key})

MergeDictShallow(h, result, overrides) ==
    MergeShallowKeys(h, result, overrides, DOMAIN h[overrides])

RECURSIVE MergeDict(_, _, _)
RECURSIVE MergeKeys(_, _, _, _)
\* The loop over the overlay's keys; yields the heap after it.  The
\* function returns `result`, the address it was given.
MergeKeys(h, result, overrides, ks) ==
    IF ks = {} THEN h
    ELSE LET key == CHOOSE k \in ks : TRUE
             h2  == IF /\ key \in DOMAIN h[result]
                       /\ IsDict(h[result][key])
                       /\ IsDict(h[overrides][key])
                    THEN MergeDict(h, h[result][key].r, h[overrides][key].r)
                    ELSE SetItem(h, result, key, h[overrides][key])
         IN  MergeKeys(h2, result, overrides, ks \ {key})

MergeDict(h, result, overrides) ==
    MergeKeys(h, result, overrides, DOMAIN h[overrides])


\* dict.copy(): a new dictionary holding the same items (nested
\* dictionaries are shared, not copied).
Copy(h, a) == [h |-> Append(h, h[a]), a |-> Len(h) + 1]

\* dict.update(other): every item of other stored, one level deep.
Update(h, a, other) == [h EXCEPT ![a] = h[other] @@ @]

----------------------------------------------------------------------------
(* The variables of a scenario that is not running.                        *)

MergeIdle == mBase = EmptyDict /\ mOver = EmptyDict /\ mOut = EmptyDict

ApiIdle ==
    /\ apiArgs = EmptyDict
    /\ apiRaised = ""
    /\ selfUrl = <<>>
    /\ selfKwargs = 0
    /\ ctorKwargs = EmptyDict

VerbsIdle ==
    /\ nCalls = 0
    /\ callVerb = ""
    /\ callKwargs = EmptyDict
    /\ callDefaults = EmptyDict
    /\ sentUrl = <<>>
    /\ sent = EmptyDict

ReviewIdle ==
    /\ revArgs = EmptyDict
    /\ review = EmptyDict
    /\ revRaised = ""
    /\ revLog = <<>>

ChangeIdle ==
    /\ srvRevision = 0
    /\ srvVisible = FALSE
    /\ change = EmptyDict
    /\ chgRaised = ""
    /\ nReviews = 0
    /\ httpLog = <<>>

DecodeIdle ==
    /\ interp = ""
    /\ response = EmptyDict
    /\ bodyParts = EmptyDict
    /\ decoded = EmptyDict
    /\ verbResult = EmptyDict

----------------------------------------------------------------------------
(* Scenario: _merge_dict applied to two dictionary literals.               *)

MaxScalar == 2

Scalars == {ToString(i) : i \in 1..MaxScalar}
InnerKeys == {"x", "y"}

DictsOver(keys, vals) == UNION {[K -> vals] : K \in SUBSET keys}

InnerDicts == DictsOver(InnerKeys, {PS(x) : x \in Scalars})
MidDicts == DictsOver({"c"}, {PS(x) : x \in Scalars} \cup {PD(f) : f \in InnerDicts})

\* "a" holds any value to three levels, "b" a scalar.
MergeInputs ==
    {fa @@ fb :
        fa \in DictsOver({"a"}, {PS(x) : x \in Scalars}
                                 \cup {PD(f) : f \in InnerDicts \cup MidDicts}),
        fb \in DictsOver({"b"}, {PS(x) : x \in Scalars})}

InitMerge ==
    /\ pc = "start"
    /\ heap = <<>>
    /\ mBase \in MergeInputs
    /\ mOver \in MergeInputs
    /\ mOut = EmptyDict
    /\ ApiIdle /\ VerbsIdle /\ ReviewIdle /\ DecodeIdle /\ ChangeIdle

\* out = _merge_dict(base, overlay), both freshly built.
CallMergeDict ==
    /\ pc = "start"
    /\ LET b == NewDict(<<>>, mBase)
           o == NewDict(b.h, mOver)
           h == MergeDict(o.h, b.a, o.a)
       IN  /\ heap' = h
           /\ mOut' = Deref(h, b.a)
    /\ pc' = "merged"
    /\ UNCHANGED <<mBase, mOver, apiVars, verbVars, reviewVars, decodeVars, changeVars>>

NextMerge == CallMergeDict

SpecMerge == InitMerge /\ [][NextMerge]_vars

\* What the merger's contract says of a base, an overlay and a result.
RECURSIVE MergeLaw(_, _, _)
MergeLaw(base, over, out) ==
    /\ DOMAIN out = DOMAIN base \cup DOMAIN over
    /\ \A k \in DOMAIN base \ DOMAIN over : out[k] = base[k]
    /\ \A k \in DOMAIN over :
          IF k \in DOMAIN base /\ base[k].t = "d" /\ over[k].t = "d"
          THEN /\ out[k].t = "d"
               /\ MergeLaw(base[k].d, over[k].d, out[k].d)
          ELSE out[k] = over[k]

ExNestedBase == "a" :> PD("x" :> PS("1"))
ExNestedOver == "a" :> PD("y" :> PS("2"))
ExNestedOut  == "a" :> PD(("x" :> PS("1")) @@ ("y" :> PS("2")))
ExScalarBase == "a" :> PS("1")

\* C10: for every base and overlay, _merge_dict yields a mapping in which a
\* key only in the base keeps its value, a key at which both hold a mapping
\* holds the recursive merge, and every other overlay key holds the overlay
\* value; {a:{x:1}} with {a:{y:2}} gives {a:{x:1,y:2}} and {a:1} with
\* {a:{y:2}} gives {a:{y:2}}.
C10_MergeDictLaw ==
    pc = "merged" =>
        /\ MergeLaw(mBase, mOver, mOut)
        /\ (mBase = ExNestedBase /\ mOver = ExNestedOver => mOut = ExNestedOut)
        /\ (mBase = ExScalarBase /\ mOver = ExNestedOver => mOut = ExNestedOver)

\* C10 witness: the nested example has been merged.
C10_Witness ==
    /\ pc = "merged"
    /\ mBase = ExNestedBase
    /\ mOver = ExNestedOver
    /\ mOut = ExNestedOut

----------------------------------------------------------------------------
(* Strings are sequences of characters.                                    *)

\* str.rstrip(ch)
RECURSIVE RStrip(_, _)
RStrip(str, ch) ==
    IF str # <<>> /\ str[Len(str)] = ch
    THEN RStrip(SubSeq(str, 1, Len(str) - 1), ch)
    ELSE str

\* str.lstrip(ch)
RECURSIVE LStrip(_, _)
LStrip(str, ch) ==
    IF str # <<>> /\ str[1] = ch THEN LStrip(Tail(str), ch) ELSE str

\* str.endswith(suffix)
EndsWith(str, suffix) ==
    /\ Len(str) >= Len(suffix)
    /\ SubSeq(str, Len(str) - Len(suffix) + 1, Len(str)) = suffix

\* str.startswith(prefix)
StartsWith(str, prefix) ==
    /\ Len(str) >= Len(prefix)
    /\ SubSeq(str, 1, Len(prefix)) = prefix

GERRIT_AUTH_SUFFIX == <<"/", "a">>

----------------------------------------------------------------------------
(* GerritRestAPI.__init__(url, auth, verify)                               *)

\* An auth argument is named by how the caller writes it: None, an instance
\* of a subclass of requests.auth.AuthBase, a non-empty string, an empty
\* string, an empty tuple, the number 0.

\* bool(auth)
Truthy(arg) == arg \in {"HTTPBasicAuth", "'foo'"}

\* isinstance(auth, requests.auth.AuthBase)
IsAuthBase(arg) == arg = "HTTPBasicAuth"

DefaultHeaders ==
    ("Accept" :> PS("application/json")) @@ ("Accept-Encoding" :> PS("gzip"))

\* The URL normalisation of __init__ for an auth that passed the type check.
NormalizeUrl(url, auth) ==
    LET stripped == RStrip(url, "/")
        suffixed ==
            IF Truthy(auth)
            THEN IF ~EndsWith(stripped, GERRIT_AUTH_SUFFIX)
                 THEN stripped \o GERRIT_AUTH_SUFFIX
                 ELSE stripped
            ELSE IF EndsWith(stripped, GERRIT_AUTH_SUFFIX)
                 THEN SubSeq(stripped, 1, Len(stripped) - Len(GERRIT_AUTH_SUFFIX))
                 ELSE stripped
    IN  IF ~EndsWith(suffixed, <<"/">>) THEN suffixed \o <<"/">> ELSE suffixed

\* The constructor: what it raises ("" for nothing), and the attributes it
\* leaves: url, and kwargs (an address of the heap h).
RestApiInit(url, auth, verify) ==
    LET k == NewDict(<<>>, ("auth" :> PS(auth)) @@ ("verify" :> PS(verify))
                             @@ ("headers" :> PD(DefaultHeaders)))
    IN  IF Truthy(auth) /\ ~IsAuthBase(auth)
        THEN [raised |-> "ValueError", url |-> RStrip(url, "/"), h |-> k.h, kwargs |-> k.a]
        ELSE [raised |-> "", url |-> NormalizeUrl(url, auth), h |-> k.h, kwargs |-> k.a]

----------------------------------------------------------------------------
(* GerritRestAPI.get, put, post, delete                                    *)

\* make_url(endpoint)
MakeUrl(url, endpoint) == url \o LStrip(endpoint, "/")

ContentTypeHeader ==
    "headers" :> PD("Content-Type" :> PS("application/json;charset=UTF-8"))

\* The test put and post make before injecting the Content-Type header.
PutPostInjects(h, kwargs) ==
    \/ "data" \in DOMAIN h[kwargs] /\ IsDict(h[kwargs]["data"])
    \/ "json" \in DOMAIN h[kwargs]

\* The test delete makes.
DeleteInjects(h, kwargs) ==
    "data" \in DOMAIN h[kwargs] \/ "json" \in DOMAIN h[kwargs]

\* get: kwargs.update(self.kwargs.copy()); yields the heap and the address
\* of the options handed to the session.
GetArgs(h, self, kwargs) ==
    LET c == Copy(h, self)
    IN  [h |-> Update(c.h, kwargs, c.a), a |-> kwargs]

\* put, post, delete: args = {}, the header if `injects`, then the defaults
\* and the caller's options merged in.
WriteArgs(h, self, kwargs, injects) ==
    LET args == NewDict(h, EmptyDict)
        h1   == IF injects
                THEN LET lit == NewDict(args.h, ContentTypeHeader)
                     IN  MergeDict(lit.h, args.a, lit.a)
                ELSE args.h
        c    == Copy(h1, self)
        h2   == MergeDict(c.h, args.a, c.a)
    IN  [h |-> MergeDict(h2, args.a, kwargs), a |-> args.a]

VerbArgs(verb, h, self, kwargs) ==
    CASE verb = "get"    -> GetArgs(h, self, kwargs)
      [] verb = "put"    -> WriteArgs(h, self, kwargs, PutPostInjects(h, kwargs))
      [] verb = "post"   -> WriteArgs(h, self, kwargs, PutPostInjects(h, kwargs))
      [] verb = "delete" -> WriteArgs(h, self, kwargs, DeleteInjects(h, kwargs))

----------------------------------------------------------------------------
(* Scenario: a constructed client serving calls of its verbs.              *)

Endpoints == {<<"c">>, <<"/", "c">>}

BodyDict == "k" :> PS("v")

\* The keyword options a caller passes to a verb: at most one of verify and
\* auth, headers or none, and a body or none.
CallerOptions ==
    {o @@ hd @@ b :
        o  \in DictsOver({"verify"}, {PS("False")})
                 \cup DictsOver({"auth"}, {PS("HTTPDigestAuth")}),
        hd \in DictsOver({"headers"},
                  {PD("X-Test" :> PS("1")), PD("Accept" :> PS("text/plain"))}),
        b  \in {EmptyDict,
                "data" :> PD(BodyDict),
                "data" :> PS("text"),
                "json" :> PD(BodyDict),
                ("data" :> PS("text")) @@ ("json" :> PD(BodyDict))}}

MaxCalls == 2

\* The state __init__(url, auth, verify) leaves.
Constructed(url, auth, verify) ==
    LET api == RestApiInit(url, auth, verify)
    IN  /\ apiArgs = [url |-> url, auth |-> auth, verify |-> verify]
        /\ apiRaised = api.raised
        /\ heap = api.h
        /\ selfUrl = api.url
        /\ selfKwargs = api.kwargs
        /\ ctorKwargs = Deref(api.h, api.kwargs)

InitVerbs ==
    /\ pc = "constructed"
    /\ \E auth \in {"None", "HTTPBasicAuth"}, verify \in {"True", "False"} :
          Constructed(<<"h">>, auth, verify)
    /\ VerbsIdle /\ MergeIdle /\ ReviewIdle /\ DecodeIdle /\ ChangeIdle

\* One call of a verb, up to the dispatch.  The dictionaries made during
\* the call are dropped when it returns: the client holds none of them.
CallVerb(verb, endpoint, options) ==
    /\ pc \in {"constructed", "called"}
    /\ nCalls < MaxCalls
    /\ nCalls' = nCalls + 1
    /\ LET k == NewDict(heap, options)
           r == VerbArgs(verb, k.h, selfKwargs, k.a)
       IN  /\ sent' = Deref(r.h, r.a)
           /\ heap' = SubSeq(r.h, 1, Len(heap))
    /\ sentUrl' = MakeUrl(selfUrl, endpoint)
    /\ callVerb' = verb
    /\ callKwargs' = options
    /\ callDefaults' = Deref(heap, selfKwargs)
    /\ pc' = "called"
    /\ UNCHANGED <<apiVars, mergeVars, reviewVars, decodeVars, changeVars>>

Get    == \E e \in Endpoints, o \in CallerOptions : CallVerb("get", e, o)
Put    == \E e \in Endpoints, o \in CallerOptions : CallVerb("put", e, o)
Post   == \E e \in Endpoints, o \in CallerOptions : CallVerb("post", e, o)
Delete == \E e \in Endpoints, o \in CallerOptions : CallVerb("delete", e, o)

NextVerbs == Get \/ Put \/ Post \/ Delete

SpecVerbs == InitVerbs /\ [][NextVerbs]_vars

\* The headers of an options mapping (none when it holds no headers mapping).
HeadersOf(opts) ==
    IF "headers" \in DOMAIN opts /\ opts["headers"].t = "d"
    THEN opts["headers"].d
    ELSE EmptyDict

\* `out` is `defaults` overlaid by `opts`: each option and each header the
\* caller gave has the caller's value, and each default option and default
\* header the caller did not give has its default value.
Overlaid(defaults, opts, out) ==
    /\ \A k \in DOMAIN opts \ {"headers"} : k \in DOMAIN out /\ out[k] = opts[k]
    /\ \A hk \in DOMAIN HeadersOf(opts) :
          hk \in DOMAIN HeadersOf(out) /\ HeadersOf(out)[hk] = HeadersOf(opts)[hk]
    /\ \A k \in DOMAIN defaults \ (DOMAIN opts \cup {"headers"}) :
          k \in DOMAIN out /\ out[k] = defaults[k]
    /\ \A hk \in DOMAIN HeadersOf(defaults) \ DOMAIN HeadersOf(opts) :
          hk \in DOMAIN HeadersOf(out) /\ HeadersOf(out)[hk] = HeadersOf(defaults)[hk]

\* C1: for each of get, put, post and delete, the options handed to the
\* session are the client defaults overlaid by the caller's options: every
\* option the caller gave arrives with the caller's value, every default the
\* caller did not give keeps its default value.
C1_CallerOverDefaults ==
    pc = "called" => Overlaid(callDefaults, callKwargs, sent)

\* C1, the verbs for which the code does overlay the caller's options.
C1_WriteVerbsOverlay ==
    pc = "called" /\ callVerb # "get" => Overlaid(callDefaults, callKwargs, sent)

\* C2: the stored default options never change: after any sequence of calls
\* they are what __init__ left, the default headers are exactly Accept and
\* Accept-Encoding, and a call without options dispatches those defaults.
C2_DefaultsImmutable ==
    /\ Deref(heap, selfKwargs) = ctorKwargs
    /\ HeadersOf(Deref(heap, selfKwargs)) = DefaultHeaders
    /\ (pc = "called" /\ callKwargs = EmptyDict => sent = ctorKwargs)

\* The caller gave a structured body: a mapping as data, or a json body.
StructuredBody(opts) ==
    \/ "data" \in DOMAIN opts /\ opts["data"].t = "d"
    \/ "json" \in DOMAIN opts

HasJsonContentType(opts) ==
    /\ "Content-Type" \in DOMAIN HeadersOf(opts)
    /\ HeadersOf(opts)["Content-Type"] = PS("application/json;charset=UTF-8")

\* C6: put, post and delete inject Content-Type: application/json;charset=UTF-8
\* exactly when the caller gives a structured body, and the default Accept
\* and Accept-Encoding headers are still dispatched when it is injected.
C6_ContentTypeRule ==
    pc = "called" /\ callVerb \in {"put", "post", "delete"} =>
        /\ HasJsonContentType(sent) <=> StructuredBody(callKwargs)
        /\ HasJsonContentType(sent) =>
              {"Accept", "Accept-Encoding"} \subseteq DOMAIN HeadersOf(sent)

\* C6, the verbs that follow the rule.
C6_PutPostRule ==
    pc = "called" /\ callVerb \in {"put", "post"} =>
        /\ HasJsonContentType(sent) <=> StructuredBody(callKwargs)
        /\ HasJsonContentType(sent) =>
              {"Accept", "Accept-Encoding"} \subseteq DOMAIN HeadersOf(sent)

----------------------------------------------------------------------------
(* GerritReview                                                            *)

\* An argument of __init__: what kind of object it is, whether bool() of it
\* is true, its items when it is a dict (d), and its elements when it is a
\* list or a tuple (l).
NoneArg     == [kind |-> "None",  truthy |-> FALSE, d |-> EmptyDict, l |-> <<>>]
DictArg(f)  == [kind |-> "dict",  truthy |-> f # EmptyDict, d |-> f, l |-> <<>>]
ListArg(l)  == [kind |-> "list",  truthy |-> l # <<>>, d |-> EmptyDict, l |-> l]
TupleArg(l) == [kind |-> "tuple", truthy |-> l # <<>>, d |-> EmptyDict, l |-> l]
StrArg(str) == [kind |-> "str",   truthy |-> str # "", d |-> EmptyDict, l |-> <<>>]
ZeroArg     == [kind |-> "int",   truthy |-> FALSE, d |-> EmptyDict, l |-> <<>>]

\* The inline comment stored for a comment dict that has a position.
InlineMsg(comment) ==
    IF "range" \in DOMAIN comment
    THEN [range |-> comment["range"], message |-> comment["message"]]
    ELSE [line |-> comment["line"], message |-> comment["message"]]

RECURSIVE AddCommentsOverwriting(_, _, _)
\* add_comments with the stored list replaced instead of extended.
AddCommentsOverwriting(cm, comments, i) ==
    IF i > Len(comments) THEN [comments |-> cm, raised |-> "", taken |-> i - 1]
    ELSE LET comment == comments[i]
         IN  IF "message" \in DOMAIN comment /\ DOMAIN comment \cap {"range", "line"} # {}
             THEN IF "filename" \notin DOMAIN comment
                  THEN [comments |-> cm, raised |-> "KeyError", taken |-> i - 1]
                  ELSE AddCommentsOverwriting(
                           (comment["filename"] :> <<InlineMsg(comment)>>) @@ cm,
                           comments, i + 1)
             ELSE AddCommentsOverwriting(cm, comments, i + 1)

RECURSIVE AddComments(_, _, _)
\* add_comments(comments), from the i-th comment on, on the comments mapping
\* cm.  Yields the mapping, what was raised, and how many comments the loop
\* took up before it ended.  ('filename' and 'message' in keys tests only
\* 'message': the string 'filename' is true.)
AddComments(cm, comments, i) ==
    IF i > Len(comments) THEN [comments |-> cm, raised |-> "", taken |-> i - 1]
    ELSE LET comment == comments[i]
         IN  IF "message" \in DOMAIN comment
             THEN IF "range" \in DOMAIN comment \/ "line" \in DOMAIN comment
                  THEN IF "filename" \notin DOMAIN comment
                       THEN [comments |-> cm, raised |-> "KeyError", taken |-> i - 1]
                       ELSE LET msg == InlineMsg(comment)
                                file_comment == comment["filename"] :> <<msg>>
                                name == comment["filename"]
                                cm2 == IF cm # EmptyDict
                                       THEN IF name \in DOMAIN cm
                                            THEN [cm EXCEPT ![name] = Append(@, msg)]
                                            ELSE file_comment @@ cm
                                       ELSE file_comment @@ cm
                            IN  AddComments(cm2, comments, i + 1)
                  ELSE AddComments(cm, comments, i + 1)
             ELSE AddComments(cm, comments, i + 1)

\* __init__(message, labels, comments): the attributes assigned, what was
\* raised, and how many of the comments add_comments took up.
ReviewInit(message, labels, comments) ==
    LET m  == "message" :> (IF message # "" /\ message # "None" THEN message ELSE "")
        l  == "labels" :> (IF labels.truthy THEN labels.d ELSE EmptyDict)
        ac == AddComments(EmptyDict, comments.l, 1)
    IN  IF labels.truthy /\ labels.kind # "dict"
        THEN [obj |-> m, raised |-> "ValueError", taken |-> 0]
        ELSE IF comments.truthy
             THEN IF comments.kind # "list"
                  THEN [obj |-> m @@ l, raised |-> "ValueError", taken |-> 0]
                  ELSE [obj |-> m @@ l @@ ("comments" :> ac.comments),
                        raised |-> ac.raised, taken |-> ac.taken]
             ELSE [obj |-> m @@ l @@ ("comments" :> EmptyDict),
                   raised |-> "", taken |-> 0]

\* add_labels(labels): self.labels.update(labels)
AddLabels(obj, labels) == [obj EXCEPT !["labels"] = labels @@ @]

----------------------------------------------------------------------------
(* Scenario: the constructors called with every kind of argument.          *)

MaxUrlLen == 5

UrlChars == {"h", "/", "a"}
Urls == UNION {[1..n -> UrlChars] : n \in 0..MaxUrlLen}

AuthArguments == {"None", "HTTPBasicAuth", "'foo'", "''", "()", "0"}

Comment1 == [filename |-> "f1", message |-> "m1", line |-> "10"]
Comment2 == [filename |-> "f1", message |-> "m2", line |-> "11", range |-> "r"]
Comment3 == [filename |-> "f2", message |-> "m3", range |-> "r"]
CommentNoPosition == [filename |-> "f1", message |-> "m4"]
CommentNoMessage == [filename |-> "f1", line |-> "12"]
CommentNoFilename == [message |-> "m5", line |-> "13"]

MessageArguments == {"None", "", "cover"}

LabelArguments ==
    {NoneArg, DictArg(EmptyDict), DictArg("Verified" :> "+1"),
     ListArg(<<Comment1>>), StrArg("foo"), StrArg(""), TupleArg(<<>>), ZeroArg}

CommentArguments ==
    {NoneArg, ListArg(<<>>), ListArg(<<Comment1>>), ListArg(<<Comment1, Comment2>>),
     ListArg(<<CommentNoFilename>>), TupleArg(<<Comment1>>), DictArg("f1" :> "m1"),
     StrArg("foo"), StrArg(""), TupleArg(<<>>), ZeroArg}

InitConstruct ==
    /\ pc = "new"
    /\ heap = <<>>
    /\ ApiIdle /\ VerbsIdle /\ MergeIdle /\ ReviewIdle /\ DecodeIdle /\ ChangeIdle

\* GerritRestAPI(url, auth, verify)
NewRestApi ==
    /\ pc = "new"
    /\ \E url \in Urls, auth \in AuthArguments, verify \in {"True", "False"} :
          LET api == RestApiInit(url, auth, verify)
          IN  /\ apiArgs' = [url |-> url, auth |-> auth, verify |-> verify]
              /\ apiRaised' = api.raised
              /\ heap' = api.h
              /\ selfUrl' = api.url
              /\ selfKwargs' = api.kwargs
              /\ ctorKwargs' = Deref(api.h, api.kwargs)
    /\ pc' = "api"
    /\ UNCHANGED <<verbVars, mergeVars, reviewVars, decodeVars, changeVars>>

\* GerritReview(message, labels, comments)
CallReviewInit(message, labels, comments) ==
    /\ pc = "new"
    /\ LET r == ReviewInit(message, labels, comments)
       IN  /\ revArgs' = [message |-> message, labels |-> labels, comments |-> comments]
           /\ review' = r.obj
           /\ revRaised' = r.raised
           /\ revLog' = SubSeq(comments.l, 1, r.taken)
           /\ pc' = IF r.raised = "" THEN "review" ELSE "failed"
    /\ UNCHANGED <<heap, apiVars, verbVars, mergeVars, decodeVars, changeVars>>

NewReviewAnyArguments ==
    \E m \in MessageArguments, l \in LabelArguments, c \in CommentArguments :
        CallReviewInit(m, l, c)

NextConstruct == NewRestApi \/ NewReviewAnyArguments

SpecConstruct == InitConstruct /\ [][NextConstruct]_vars

\* The URL without its last character.
ButLast(str) == SubSeq(str, 1, Len(str) - 1)

OneTrailingSlash(str) ==
    /\ EndsWith(str, <<"/">>)
    /\ ~EndsWith(str, <<"/", "/">>)

\* C3: for every input URL the constructed client's base URL ends with
\* exactly one trailing slash; with that slash removed it ends with /a when
\* an auth handle is supplied and does not end with /a when none is.
C3_UrlNormalized ==
    pc = "api" /\ apiRaised = "" /\ apiArgs["auth"] \in {"None", "HTTPBasicAuth"} =>
        /\ OneTrailingSlash(selfUrl)
        /\ EndsWith(ButLast(selfUrl), GERRIT_AUTH_SUFFIX)
              <=> apiArgs["auth"] = "HTTPBasicAuth"

\* C3, the case the code does normalise: an auth handle is supplied.
C3_UrlNormalizedWithAuth ==
    pc = "api" /\ apiRaised = "" /\ apiArgs["auth"] = "HTTPBasicAuth" =>
        /\ OneTrailingSlash(selfUrl)
        /\ EndsWith(ButLast(selfUrl), GERRIT_AUTH_SUFFIX)

\* C7: an invalid constructor argument is always rejected at construction:
\* GerritRestAPI raises for every supplied auth that is no AuthBase,
\* GerritReview for every supplied labels that is no mapping and every
\* supplied comments that is no list, empty and falsy values included.
C7_InvalidArgumentsRejected ==
    /\ pc = "api" /\ apiArgs["auth"] \notin {"None", "HTTPBasicAuth"}
          => apiRaised = "ValueError"
    /\ pc \in {"review", "failed"} /\ revArgs["labels"].kind \notin {"None", "dict"}
          => revRaised = "ValueError"
    /\ pc \in {"review", "failed"} /\ revArgs["comments"].kind \notin {"None", "list"}
          => revRaised = "ValueError"

\* C7, the arguments the code does reject: the invalid ones bool() is true of.
C7_TruthyInvalidRejected ==
    /\ pc = "api" /\ apiArgs["auth"] \notin {"None", "HTTPBasicAuth"}
          /\ Truthy(apiArgs["auth"])
          => apiRaised = "ValueError"
    /\ pc \in {"review", "failed"} /\ revArgs["labels"].kind \notin {"None", "dict"}
          /\ revArgs["labels"].truthy
          => revRaised = "ValueError"
    /\ pc \in {"review", "failed"} /\ revArgs["comments"].kind \notin {"None", "list"}
          /\ revArgs["comments"].truthy
          => revRaised = "ValueError"

----------------------------------------------------------------------------
(* Scenario: a GerritReview built and then extended.                       *)

MaxLog == 3

CommentUniverse ==
    {Comment1, Comment2, Comment3, CommentNoPosition, CommentNoMessage,
     CommentNoFilename}

\* The lists a caller passes to add_comments: none, one or two comments.
CommentLists ==
    {<<>>} \cup {<<c>> : c \in CommentUniverse}
           \cup {<<c, d>> : c \in CommentUniverse, d \in CommentUniverse}

LabelDicts == {"Verified" :> "+1", "Verified" :> "-1", "Code-Review" :> "+1"}

InitReview ==
    /\ pc = "new"
    /\ heap = <<>>
    /\ ApiIdle /\ VerbsIdle /\ MergeIdle /\ ReviewIdle /\ DecodeIdle /\ ChangeIdle

NewReview ==
    \/ CallReviewInit("None", NoneArg, NoneArg)
    \/ CallReviewInit("cover", DictArg("Verified" :> "+1"), ListArg(<<Comment1>>))
    \/ CallReviewInit("None", DictArg(EmptyDict), ListArg(<<Comment3, Comment1>>))
    \/ CallReviewInit("", NoneArg, ListArg(<<Comment1, CommentNoFilename>>))

\* review.add_comments(comments)
CallAddComments ==
    /\ pc = "review"
    /\ \E comments \in CommentLists :
          /\ Len(revLog) + Len(comments) <= MaxLog
          /\ LET r == AddComments(review["comments"], comments, 1)
             IN  /\ review' = [review EXCEPT !["comments"] = r.comments]
                 /\ revRaised' = r.raised
                 /\ revLog' = revLog \o SubSeq(comments, 1, r.taken)
    /\ UNCHANGED <<pc, heap, revArgs, apiVars, verbVars, mergeVars, decodeVars, changeVars>>

\* review.add_labels(labels)
CallAddLabels ==
    /\ pc = "review"
    /\ \E labels \in LabelDicts : review' = AddLabels(review, labels)
    /\ revRaised' = ""
    /\ UNCHANGED <<pc, heap, revArgs, revLog, apiVars, verbVars, mergeVars, decodeVars, changeVars>>

\* review.set_message(message)
CallSetMessage ==
    /\ pc = "review"
    /\ review' = [review EXCEPT !["message"] = "cover"]
    /\ revRaised' = ""
    /\ UNCHANGED <<pc, heap, revArgs, revLog, apiVars, verbVars, mergeVars, decodeVars, changeVars>>

NextReview == NewReview \/ CallAddComments \/ CallAddLabels \/ CallSetMessage

SpecReview == InitReview /\ [][NextReview]_vars

Paths == {"f1", "f2"}

\* A comment add_comments is documented to take: a file, a message and a
\* line or a range.
WellFormed(comment) ==
    /\ {"filename", "message"} \subseteq DOMAIN comment
    /\ DOMAIN comment \cap {"line", "range"} # {}

\* The inline comments of the well-formed comments taken up so far for a
\* path, in the order they were given.
ExpectedAt(path) ==
    LET mine == SelectSeq(revLog, LAMBDA c : WellFormed(c) /\ c["filename"] = path)
    IN  [i \in 1..Len(mine) |-> InlineMsg(mine[i])]

StoredAt(path) ==
    IF path \in DOMAIN review["comments"] THEN review["comments"][path] ELSE <<>>

\* C8: once a GerritReview is constructed, and after any add_comments and
\* add_labels calls, labels and comments are both present and the list under
\* each path holds, in call order, every comment added for that path, with
\* its message and its line or range: nothing earlier is removed, replaced
\* or reordered.
C8_CommentsAccumulate ==
    pc = "review" =>
        /\ {"labels", "comments"} \subseteq DOMAIN review
        /\ DOMAIN review["comments"] \subseteq Paths
        /\ \A path \in Paths : StoredAt(path) = ExpectedAt(path)

\* C8 witness: the constructor stored one comment for f1 and a later
\* add_comments call added a second one under the same path.
C8_Witness ==
    /\ pc = "review"
    /\ revArgs["comments"] = ListArg(<<Comment1>>)
    /\ StoredAt("f1") = <<InlineMsg(Comment1), InlineMsg(Comment2)>>
    /\ StoredAt("f2") = <<InlineMsg(Comment3)>>

----------------------------------------------------------------------------
(* _decode_response(response)                                              *)

\* The magic prefix, five characters: ) ] } ' and a line feed.
GERRIT_MAGIC_JSON_PREFIX == <<")", "]", "}", "'", "\n">>

Whitespace == {" ", "\n"}

\* strip(): whitespace removed from both ends.
RECURSIVE Strip(_)
Strip(str) ==
    IF str # <<>> /\ str[1] \in Whitespace THEN Strip(Tail(str))
    ELSE IF str # <<>> /\ str[Len(str)] \in Whitespace
         THEN Strip(SubSeq(str, 1, Len(str) - 1))
         ELSE str

\* bytes.decode(encoding) raises on a byte the encoding does not have.
Decodable(bytes) == \A i \in 1..Len(bytes) : bytes[i] # "0xFF"

\* content_type.split(';')[0]: the characters before the first ";".
RECURSIVE FirstField(_)
FirstField(str) ==
    IF str = <<>> \/ str[1] = ";" THEN <<>>
    ELSE <<str[1]>> \o FirstField(Tail(str))

\* The document with the whitespace between its tokens dropped.
Tokens(str) == SelectSeq(str, LAMBDA ch : ch \notin Whitespace)

\* The JSON documents of the alphabet: 1, {}, [] and [ document ].
RECURSIVE IsJsonTokens(_)
IsJsonTokens(toks) ==
    \/ toks \in {<<"1">>, <<"{", "}">>, <<"[", "]">>}
    \/ /\ Len(toks) >= 3
       /\ toks[1] = "["
       /\ toks[Len(toks)] = "]"
       /\ IsJsonTokens(SubSeq(toks, 2, Len(toks) - 1))

IsJson(str) == IsJsonTokens(Tokens(str))

\* What the decoder does: returns or raises, the exception, the last step it
\* reached, the value returned with its type, and whether it logged an error.
Raise(exc, stage) ==
    [kind |-> "raise", exc |-> exc, stage |-> stage, type |-> "", value |-> <<>>,
     logged |-> FALSE]
Return(type, value, stage) ==
    [kind |-> "return", exc |-> "", stage |-> stage, type |-> type, value |-> value,
     logged |-> FALSE]

\* json.loads(content) and the except clause around it.
JsonLoads(content) ==
    IF IsJson(content)
    THEN Return("json", Tokens(content), "parse")
    ELSE [Raise("ValueError", "parse") EXCEPT !.logged = TRUE]

\* The decoder with the prefix test left out.
DecodeKeepingPrefix(resp, py) ==
    LET stripped == Strip(resp.content)
        type == IF resp.encoding # "" THEN "str" ELSE "bytes"
    IN  IF resp.encoding # "" /\ ~Decodable(stripped)
        THEN Raise("UnicodeDecodeError", "decode")
        ELSE IF resp.status_code >= 400 /\ resp.status_code < 600
        THEN Raise("HTTPError", "status")
        ELSE IF FirstField(resp.content_type) # <<"application/json">>
        THEN Return(type, stripped, "content-type")
        ELSE JsonLoads(stripped)

\* The decoder.  Without a declared encoding the content stays a byte
\* string, which Python 3 refuses to compare with the (text) prefix.
DecodeResponse(resp, py) ==
    LET stripped == Strip(resp.content)
        type == IF resp.encoding # "" THEN "str" ELSE "bytes"
    IN  IF resp.encoding # "" /\ ~Decodable(stripped)
        THEN Raise("UnicodeDecodeError", "decode")
        ELSE IF resp.status_code >= 400 /\ resp.status_code < 600
        THEN Raise("HTTPError", "status")
        ELSE IF FirstField(resp.content_type) # <<"application/json">>
        THEN Return(type, stripped, "content-type")
        ELSE IF type = "bytes" /\ py = "py3"
        THEN Raise("TypeError", "prefix")
        ELSE IF StartsWith(stripped, GERRIT_MAGIC_JSON_PREFIX)
        THEN JsonLoads(SubSeq(stripped, Len(GERRIT_MAGIC_JSON_PREFIX) + 1,
                              Len(stripped)))
        ELSE JsonLoads(stripped)

\* The end of get, put, post and delete: the decoder's exception goes to the
\* caller, its value is returned alone or with the response.
VerbReturn(d, resp, return_response) ==
    IF d.kind = "raise"
    THEN [raised |-> d.exc, body |-> Raise(d.exc, d.stage), hasResponse |-> FALSE]
    ELSE [raised |-> "", body |-> d, hasResponse |-> return_response]

----------------------------------------------------------------------------
(* Scenario: the session answers a verb's request.                         *)

MaxPrefixes == 2

RECURSIVE Repeat(_, _)
Repeat(str, n) == IF n = 0 THEN <<>> ELSE str \o Repeat(str, n - 1)

\* Response bodies: whitespace, some magic prefixes, a document, whitespace.
Documents ==
    {<<"1">>, <<"{", "}">>, <<"[", " ", "1", "\n", "]">>,
     <<>>, <<"[">>, <<"0xFF">>,
     <<"[">> \o GERRIT_MAGIC_JSON_PREFIX \o <<"]">>}

BodyParts ==
    [lead : {<<>>, <<" ">>}, prefixes : 0..MaxPrefixes, doc : Documents,
     trail : {<<>>, <<"\n">>}]

BodyOf(parts) ==
    parts.lead \o Repeat(GERRIT_MAGIC_JSON_PREFIX, parts.prefixes) \o parts.doc
        \o parts.trail

ContentTypes ==
    {<<"application/json">>,
     <<"application/json", ";", " charset=UTF-8">>,
     <<"text/plain">>,
     <<"text/plain", ";", "application/json">>,
     <<>>}

StatusCodes == {200, 204, 302, 400, 404, 500}

InitDecode ==
    /\ pc = "dispatched"
    /\ heap = <<>>
    /\ interp \in {"py2", "py3"}
    /\ bodyParts \in BodyParts
    /\ \E s \in StatusCodes, ct \in ContentTypes, enc \in {"", "utf-8"} :
          response = [status_code |-> s, content_type |-> ct, encoding |-> enc,
                      content |-> BodyOf(bodyParts)]
    /\ decoded = EmptyDict
    /\ verbResult = EmptyDict
    /\ ApiIdle /\ VerbsIdle /\ MergeIdle /\ ReviewIdle /\ ChangeIdle

\* The verb decodes the response and returns.
VerbCompletes(verb, return_response) ==
    /\ pc = "dispatched"
    /\ callVerb' = verb
    /\ decoded' = DecodeResponse(response, interp)
    /\ verbResult' = VerbReturn(DecodeResponse(response, interp), response,
                                return_response)
    /\ pc' = "returned"
    /\ UNCHANGED <<heap, interp, response, bodyParts, nCalls, callKwargs,
                   callDefaults, sentUrl, sent, apiVars, mergeVars, reviewVars,
                   changeVars>>

GetCompletes    == \E rr \in BOOLEAN : VerbCompletes("get", rr)
PutCompletes    == \E rr \in BOOLEAN : VerbCompletes("put", rr)
PostCompletes   == \E rr \in BOOLEAN : VerbCompletes("post", rr)
DeleteCompletes == \E rr \in BOOLEAN : VerbCompletes("delete", rr)

NextDecode == GetCompletes \/ PutCompletes \/ PostCompletes \/ DeleteCompletes

SpecDecode == InitDecode /\ [][NextDecode]_vars

IsErrorStatus(code) == code >= 400 /\ code < 600

\* C4: for every response with an error status the decoder raises the HTTP
\* error without reaching the content-type check, the prefix stripping or
\* the JSON parse, whatever the body and content-type; no verb returns a
\* decoded body for an error status.
C4_ErrorStatusRaisesHttpError ==
    pc = "returned" /\ IsErrorStatus(response.status_code) =>
        /\ decoded.kind = "raise"
        /\ decoded.exc = "HTTPError"
        /\ decoded.stage = "status"
        /\ verbResult.raised = "HTTPError"

\* C4, what the code does guarantee for an error status: it raises, at the
\* status check or at the decoding before it, and no verb returns a body.
C4_ErrorStatusNeverParsed ==
    pc = "returned" /\ IsErrorStatus(response.status_code) =>
        /\ decoded.kind = "raise"
        /\ decoded.stage \in {"decode", "status"}
        /\ verbResult.raised \in {"UnicodeDecodeError", "HTTPError"}

\* The response for the same exchange with another body.
WithBody(resp, body) == [resp EXCEPT !.content = body]

IsJsonResponse(resp) ==
    /\ ~IsErrorStatus(resp.status_code)
    /\ FirstField(resp.content_type) = <<"application/json">>

\* C5: for every successful application/json response (parameters ignored)
\* whose body is the magic prefix followed by a valid JSON document J,
\* possibly surrounded by whitespace, the decoder gives what it gives for
\* the body J alone; the prefix is removed at most once, and only from the
\* start of the trimmed body.
C5_PrefixStripped ==
    pc = "returned" /\ IsJsonResponse(response) =>
        /\ bodyParts.prefixes = 1 /\ IsJson(bodyParts.doc)
              => /\ decoded = DecodeResponse(WithBody(response, bodyParts.doc), interp)
                 /\ response.encoding # "" \/ interp = "py2"
                       => decoded.kind = "return" /\ decoded.value = Tokens(bodyParts.doc)
        /\ bodyParts.prefixes >= 2 => decoded.kind = "raise"
        /\ bodyParts.prefixes = 0 /\ ~IsJson(bodyParts.doc) => decoded.kind = "raise"

\* C5 witness: a prefixed JSON body between whitespace was decoded to J.
C5_Witness ==
    /\ pc = "returned"
    /\ IsJsonResponse(response)
    /\ bodyParts = [lead |-> <<" ">>, prefixes |-> 1,
                    doc |-> <<"[", " ", "1", "\n", "]">>, trail |-> <<"\n">>]
    /\ decoded = Return("json", <<"[", "1", "]">>, "parse")
    /\ verbResult.body = decoded

----------------------------------------------------------------------------
(* GerritChange.add_review and reload, GerritClient.get_change             *)

\* get_change(**kwargs): next(iter(self.query_changes(**kwargs) or []), None)
GetChange(changes) == IF changes = <<>> THEN <<>> ELSE <<changes[1]>>

\* reload with the new state kept out of the object.
ReloadKeepingOld(obj, fetched) == obj @@ fetched

\* reload: self.__dict__.update(fetched.__dict__)
ReloadDict(obj, fetched) == fetched @@ obj

\* The revision property.
RevisionOf(obj) == obj["current_revision"]

\* The id property.
IdOf(obj) == obj["_number"]

----------------------------------------------------------------------------
(* Scenario: add_review on a change whose revision moves on the server.    *)

MaxRevision == 3
MaxReviews == 2

\* What the server answers a query for the change with: nothing when it is
\* not visible, else the change and perhaps a further match after it.
ServerAnswers ==
    IF ~srvVisible THEN {<<>>}
    ELSE LET c == [_number |-> 7, current_revision |-> srvRevision,
                   status |-> "NEW"]
             o == [_number |-> 8, current_revision |-> 1, status |-> "NEW"]
         IN  {<<c>>, <<c, o>>}

InitChange ==
    /\ pc = "idle"
    /\ heap = <<>>
    /\ srvRevision = 1
    /\ srvVisible = TRUE
    /\ change = [_number |-> 7, current_revision |-> 1, status |-> "NEW"]
    /\ chgRaised = ""
    /\ nReviews = 0
    /\ httpLog = <<>>
    /\ ApiIdle /\ VerbsIdle /\ MergeIdle /\ ReviewIdle /\ DecodeIdle

\* Someone uploads a new patch set.
ServerNewRevision ==
    /\ srvRevision < MaxRevision
    /\ srvRevision' = srvRevision + 1
    /\ UNCHANGED <<pc, heap, srvVisible, change, chgRaised, nReviews, httpLog,
                   apiVars, verbVars, mergeVars, reviewVars, decodeVars>>

\* The change is deleted, or hidden from the caller, and shown again.
ServerTogglesVisible ==
    /\ srvVisible' = ~srvVisible
    /\ UNCHANGED <<pc, heap, srvRevision, change, chgRaised, nReviews, httpLog,
                   apiVars, verbVars, mergeVars, reviewVars, decodeVars>>

GetEntry(call, held, answer, error) ==
    [verb |-> "GET", call |-> call, number |-> held["_number"],
     revision |-> held["current_revision"], answer |-> answer, error |-> error]

PostEntry(call, number, revision) ==
    [verb |-> "POST", call |-> call, number |-> number, revision |-> revision,
     answer |-> <<>>, error |-> ""]

\* add_review, first half: self.reload().  The GET is answered with the
\* server's state, or fails.
AddReviewReload ==
    /\ pc = "idle"
    /\ nReviews < MaxReviews
    /\ nReviews' = nReviews + 1
    /\ \/ \E answer \in ServerAnswers :
             LET found == GetChange(answer)
             IN  /\ httpLog' = Append(httpLog,
                                      GetEntry(nReviews + 1, change, answer, ""))
                 /\ IF found = <<>>
                    THEN /\ chgRaised' = "AttributeError"
                         /\ UNCHANGED <<pc, change>>
                    ELSE /\ chgRaised' = ""
                         /\ change' = ReloadDict(change, found[1])
                         /\ pc' = "reloaded"
       \/ \E error \in {"HTTPError", "ConnectionError", "ValueError"} :
             /\ httpLog' = Append(httpLog, GetEntry(nReviews + 1, change, <<>>, error))
             /\ chgRaised' = error
             /\ UNCHANGED <<pc, change>>
    /\ UNCHANGED <<heap, srvRevision, srvVisible,
                   apiVars, verbVars, mergeVars, reviewVars, decodeVars>>

\* add_review, second half: the POST to the revision the object now holds.
AddReviewPost ==
    /\ pc = "reloaded"
    /\ httpLog' = Append(httpLog, PostEntry(nReviews, IdOf(change), RevisionOf(change)))
    /\ \E error \in {"", "HTTPError", "ConnectionError"} : chgRaised' = error
    /\ pc' = "idle"
    /\ UNCHANGED <<heap, srvRevision, srvVisible, change, nReviews,
                   apiVars, verbVars, mergeVars, reviewVars, decodeVars>>

NextChange ==
    ServerNewRevision \/ ServerTogglesVisible \/ AddReviewReload \/ AddReviewPost

SpecChange == InitChange /\ [][NextChange]_vars

\* C9: in every add_review call the reload GET completes before the review
\* POST is sent, the POST targets the revision the server reported as
\* current in that reload, and no POST is sent when the reload raises or
\* finds no change.
C9_PostAfterReload ==
    \A i \in 1..Len(httpLog) :
        httpLog[i].verb = "POST" =>
            /\ i > 1
            /\ httpLog[i - 1].verb = "GET"
            /\ httpLog[i - 1].call = httpLog[i].call
            /\ httpLog[i - 1].error = ""
            /\ httpLog[i - 1].answer # <<>>
            /\ httpLog[i].revision = httpLog[i - 1].answer[1].current_revision
            /\ httpLog[i].number = httpLog[i - 1].answer[1]._number

\* C9 witness: the object held revision 1, the server moved on twice, and
\* the review was posted to revision 3.
C9_Witness ==
    /\ Len(httpLog) = 2
    /\ httpLog[1].verb = "GET" /\ httpLog[1].revision = 1
    /\ httpLog[2].verb = "POST" /\ httpLog[2].revision = 3

====
